---- MODULE Spec2Model ----
(***************************************************************************)
(* Model of assets/js/playback-sync.js: the PlaybackSync module that       *)
(* carries the playback position of an embedded viewer across a reload.    *)
(*                                                                         *)
(* Times are integers in units of 0.0001 s (1.42 s = 14200), so that the   *)
(* tolerance 0.1, the assumed extent 2.67 and a bar width in whole percent *)
(* are all exact.  Timer delays are in milliseconds.                       *)
(***************************************************************************)
EXTENDS Integers, Sequences, FiniteSets, TLC

VARIABLES
    pendingPlaybackTime,  \* the module's pending target, or Null
    syncInterval,         \* the module's interval handle, or Null
    timers,               \* the platform's active setInterval timers: id -> closure
    timeouts,             \* the platform's pending setTimeout timers: id -> closure
    nextTimerId,          \* the platform's next timer id
    doc,                  \* the embedded surface (iframe) as the module sees it
    last                  \* the handler that ran last, with what it did

vars == <<pendingPlaybackTime, syncInterval, timers, timeouts, nextTimerId, doc, last>>

-----------------------------------------------------------------------------
(* JavaScript values that are not times.                                   *)

Null == -1     \* null, or an attribute that is absent or empty
NaN == -2      \* the result of parsing a string that holds no number
Throw == -3    \* an exception propagating out of a call

(* Program constants.                                                      *)

MAX_SYNC_ATTEMPTS == 100
SYNC_INTERVAL_MS == 50
SETTLE_DELAY_MS == 100
TOLERANCE == 1000            \* 0.1
ASSUMED_MAX_TIME == 26700    \* 2.67

(* Bounds of the model.                                                    *)

MaxTimerId == 4              \* timer ids the platform hands out in a run

Quantum == SYNC_INTERVAL_MS  \* the step by which the clock advances

-----------------------------------------------------------------------------
(* Number helpers, as JavaScript computes them.                            *)

IsFinite(x) == x \in Nat

\* attr || dflt : an absent or empty attribute falls back to the default
OrDefault(attr, dflt) == IF attr = Null THEN dflt ELSE attr

\* parseFloat of an attribute value that is a number or unparseable text
ParseFloat(s) == IF s \in Nat THEN s ELSE NaN

JsString_Integer(x) == IF x \in Nat THEN (x \div 10000) * 10000 ELSE NaN

\* String(x): the text of a number, which parseFloat reads back as written;
\* the text of NaN holds no number
JsString(x) == IF x \in Nat THEN x ELSE NaN

MathMax(a, b) == IF a = NaN \/ b = NaN THEN NaN ELSE IF a >= b THEN a ELSE b

MathMin(a, b) == IF a = NaN \/ b = NaN THEN NaN ELSE IF a <= b THEN a ELSE b

Abs(x) == IF x < 0 THEN -x ELSE x

-----------------------------------------------------------------------------
(* The embedded document, as far as the module's selectors look at it.     *)
(*   access     "ok", "unloaded" (no document yet) or "denied" (every      *)
(*              access throws)                                             *)
(*   thumb      "none", "loose" (a thumb outside any slider root) or       *)
(*              "inRoot"                                                   *)
(*   root       a .mantine-Slider-root element exists                      *)
(*   track      the root holds a .mantine-Slider-track                     *)
(*   ariaValue  the thumb's aria-valuenow: Null, a number or NaN (text)    *)
(*   bar        the width of .mantine-Slider-bar in percent: Null when the *)
(*              root holds no bar, NaN when the width is not a number      *)
(*   ranges     the input[type=range] elements in document order, each     *)
(*              [min, max, value] with Null for an undeclared attribute    *)
(*   accepts    whether the structured widget follows a pointer press      *)
(*   icons      the elements whose class contains "player-play", in        *)
(*              document order: [svg, button] says whether it is an svg    *)
(*              and whether it lies inside a button                        *)
(*   nearButton the root's parent holds a button with an svg in it         *)
(*   body       the document has a body                                    *)

EmptyDoc ==
    [access |-> "ok", thumb |-> "none", root |-> FALSE, track |-> FALSE,
     ariaValue |-> Null, bar |-> Null, ranges |-> <<>>, accepts |-> FALSE,
     icons |-> <<>>, nearButton |-> FALSE, body |-> TRUE]

NoSlider == [type |-> "none", index |-> 0]

FirstRange_ZeroMax(ranges) ==
    LET ok == {i \in 1..Len(ranges) : ParseFloat(OrDefault(ranges[i].max, 0)) # NaN}
    IN  IF ok = {} THEN 0 ELSE CHOOSE i \in ok : \A j \in ok : i <= j

\* the first range input whose declared max is a positive number, or 0
FirstRange(ranges) ==
    LET ok == {i \in 1..Len(ranges) :
                  LET max == ParseFloat(OrDefault(ranges[i].max, 0))
                  IN  max # NaN /\ max > 0}
    IN  IF ok = {} THEN 0 ELSE CHOOSE i \in ok : \A j \in ok : i <= j

findPlaybackSlider(d) ==
    IF d.access # "ok" THEN NoSlider
    ELSE IF d.thumb = "inRoot" /\ d.track THEN [type |-> "mantine", index |-> 0]
    ELSE LET i == FirstRange(d.ranges)
         IN  IF i > 0 THEN [type |-> "range", index |-> i] ELSE NoSlider

\* the body of readPlaybackTime's try block: a time, Null or Throw
ReadBody(d) ==
    IF d.access = "denied" THEN Throw
    ELSE IF d.access = "unloaded" THEN Null
    ELSE LET slider == findPlaybackSlider(d) IN
         CASE slider.type = "none" -> Null
           [] slider.type = "range" ->
                LET value == ParseFloat(d.ranges[slider.index].value)
                IN  IF IsFinite(value) THEN value ELSE Null
           [] slider.type = "mantine" ->
                IF d.ariaValue # Null
                THEN LET value == ParseFloat(d.ariaValue)
                     IN  IF IsFinite(value) THEN value ELSE Null
                ELSE IF d.bar # Null /\ IsFinite(ParseFloat(d.bar))
                     THEN (ParseFloat(d.bar) * ASSUMED_MAX_TIME) \div 100
                     ELSE Null

\* readPlaybackTime: the catch turns an exception into null
readPlaybackTime(d) ==
    LET r == ReadBody(d) IN IF r = Throw THEN Null ELSE r

\* what the structured widget does with a press at position p of its track
WidgetFollows(d, p) ==
    IF d.accepts
    THEN [d EXCEPT !.ariaValue = IF @ = Null THEN Null ELSE p,
                   !.bar = IF @ = Null THEN Null ELSE (p * 100) \div ASSUMED_MAX_TIME]
    ELSE d

\* the body of setPlaybackTime's try block
SetBody(d, targetTime) ==
    IF d.access = "denied"
    THEN [ret |-> FALSE, threw |-> TRUE, doc |-> d, events |-> <<>>]
    ELSE IF d.access = "unloaded"
    THEN [ret |-> FALSE, threw |-> FALSE, doc |-> d, events |-> <<>>]
    ELSE LET slider == findPlaybackSlider(d) IN
         CASE slider.type = "none" ->
                [ret |-> FALSE, threw |-> FALSE, doc |-> d, events |-> <<>>]
           [] slider.type = "range" ->
                LET el == d.ranges[slider.index]
                    min == ParseFloat(OrDefault(el.min, 0))
                    max == ParseFloat(OrDefault(el.max, targetTime))
                    clamped == MathMin(MathMax(targetTime, min), max)
                IN  [ret |-> TRUE, threw |-> FALSE,
                     doc |-> [d EXCEPT !.ranges[slider.index].value = JsString(clamped)],
                     events |-> <<"input", "change">>]
           [] slider.type = "mantine" ->
                \* ratio = clamp(targetTime / maxTime, 0, 1); the press lands
                \* at ratio of the track, which is position ratio * maxTime
                LET maxTime == ASSUMED_MAX_TIME
                    p == MathMin(MathMax(targetTime, 0), maxTime)
                IN  [ret |-> TRUE, threw |-> FALSE, doc |-> WidgetFollows(d, p),
                     events |-> <<"mousedown", "mouseup">>]

setPlaybackTime_NoCatch(d, targetTime) == SetBody(d, targetTime)

\* setPlaybackTime: the catch turns an exception into false
setPlaybackTime(d, targetTime) ==
    LET r == SetBody(d, targetTime)
    IN  IF r.threw THEN [r EXCEPT !.ret = FALSE, !.threw = FALSE] ELSE r

\* the first in document order of a set of element indices, or 0
First(S) == IF S = {} THEN 0 ELSE CHOOSE i \in S : \A j \in S : i <= j

\* strategy 1: the first element whose class contains "player-play"
FirstPlayIcon(icons) == First(1..Len(icons))

FirstSvgInButton_AnySvg(icons) == First({i \in 1..Len(icons) : icons[i].svg})

\* strategy 2: the first svg of that class that lies inside a button
FirstSvgInButton(icons) ==
    First({i \in 1..Len(icons) : icons[i].svg /\ icons[i].button})

\* the body of ensurePlaying's try block: the interactions it delivers
PlayBody(d) ==
    IF d.access = "denied" THEN [events |-> <<>>, threw |-> TRUE]
    ELSE IF d.access = "unloaded" THEN [events |-> <<>>, threw |-> FALSE]
    ELSE LET playIcon == FirstPlayIcon(d.icons)
             svg == FirstSvgInButton(d.icons)
         IN  IF playIcon > 0 /\ d.icons[playIcon].button
             THEN [events |-> <<"click1">>, threw |-> FALSE]
             ELSE IF svg > 0
             THEN [events |-> <<"click2">>, threw |-> FALSE]
             ELSE IF d.root /\ d.nearButton
             THEN [events |-> <<"click3">>, threw |-> FALSE]
             ELSE IF d.body
             THEN [events |-> <<"keydown">>, threw |-> FALSE]
             ELSE [events |-> <<>>, threw |-> TRUE]

\* ensurePlaying: the catch swallows an exception
ensurePlaying(d) ==
    LET r == PlayBody(d) IN [r EXCEPT !.threw = FALSE]

-----------------------------------------------------------------------------
(* The platform's timers.                                                  *)

\* clearInterval(handle), clearTimeout(handle): an unknown handle is ignored
ClearTimer(ts, handle) == [i \in DOMAIN ts \ {handle} |-> ts[i]]

\* setInterval(callback, SYNC_INTERVAL_MS) with the callback's closure
SetInterval(ts, id, targetTime) ==
    [i \in DOMAIN ts \cup {id} |->
        IF i = id THEN [target |-> targetTime, attempts |-> 0, due |-> SYNC_INTERVAL_MS]
        ELSE ts[i]]

\* setTimeout(() => ensurePlaying(iframe), 100), scheduled by loop
SetTimeout(ts, id, loop) ==
    [i \in DOMAIN ts \cup {id} |->
        IF i = id THEN [loop |-> loop, due |-> SETTLE_DELAY_MS] ELSE ts[i]]

\* the timers after the clock has advanced by ms
Elapse(ts, ms) ==
    [i \in DOMAIN ts |-> [ts[i] EXCEPT !.due = IF @ > ms THEN @ - ms ELSE 0]]

-----------------------------------------------------------------------------
(* What the last handler did.                                              *)

(*   op       the handler: "init", "save", "restore", "cancel", "peek",     *)
(*            "tick", "resume", or the environment's "advance", "load"     *)
(*   prev     the pending target before it ran                             *)
(*   handle   the interval handle before it ran                            *)
(*   id       the loop concerned: started (restore), ticking (tick), or    *)
(*            the one that scheduled the resume                            *)
(*   target, attempt, applied, read   a tick's target, its attempt number, *)
(*            whether its write reported success, and its read-back;       *)
(*            read is also the value save and peek return                  *)
(*   events   the synthetic events delivered to the document               *)
(*   threw    an exception left the handler                                *)
(*   outcome  "saved"/"unread", "started"/"noop",                          *)
(*            "converged"/"exhausted"/"retry"/"threw", else "none"         *)

Quiet ==
    [op |-> "init", prev |-> Null, handle |-> Null, id |-> Null, target |-> Null,
     attempt |-> 0, applied |-> FALSE, read |-> Null, events |-> <<>>,
     threw |-> FALSE, outcome |-> "none"]

Did(op) ==
    [Quiet EXCEPT !.op = op, !.prev = pendingPlaybackTime, !.handle = syncInterval]

-----------------------------------------------------------------------------
(* The surfaces the host embeds in the runs checked here.                  *)

PlayButton == [svg |-> TRUE, button |-> TRUE]

RangeDoc(min, max, value, icons) ==
    [EmptyDoc EXCEPT !.ranges = <<[min |-> min, max |-> max, value |-> value]>>,
                     !.icons = icons]

MantineDoc(aria, bar, accepts) ==
    [EmptyDoc EXCEPT !.thumb = "inRoot", !.root = TRUE, !.track = TRUE,
                     !.ariaValue = aria, !.bar = bar, !.accepts = accepts,
                     !.nearButton = TRUE]

Surfaces ==
    { RangeDoc(0, 50000, 14200, <<PlayButton>>),   \* a clip of 5 s at 1.42 s
      RangeDoc(Null, 50000, 30000, <<>>),          \* the same clip at 3 s
      RangeDoc(0, 26700, 26700, <<PlayButton>>),   \* a clip of 2.67 s at its end
      MantineDoc(14200, Null, TRUE),               \* a structured slider
      [EmptyDoc EXCEPT !.access = "unloaded"],     \* a frame still loading
      [EmptyDoc EXCEPT !.access = "denied"] }      \* a cross-origin frame

-----------------------------------------------------------------------------
(* The module's state after construction, and its handlers.                *)

Init ==
    /\ pendingPlaybackTime = Null
    /\ syncInterval = Null
    /\ timers = <<>>
    /\ timeouts = <<>>
    /\ nextTimerId = 1
    /\ doc \in Surfaces
    /\ last = Quiet

SaveTarget_FirstWins(pending, time) ==
    IF IsFinite(pending) THEN pending ELSE IF IsFinite(time) THEN time ELSE pending

SaveTarget_ClearsOnFailure(pending, time) == IF IsFinite(time) THEN time ELSE Null

\* the pending target after a save that read time (a time, Null or Throw)
SaveTarget(pending, time) == IF IsFinite(time) THEN time ELSE pending

savePlaybackTime ==
    LET time == readPlaybackTime(doc) IN
    /\ pendingPlaybackTime' = SaveTarget(pendingPlaybackTime, time)
    /\ last' = [Did("save") EXCEPT !.read = IF time = Throw THEN Null ELSE time,
                             !.threw = (time = Throw),
                             !.outcome = IF IsFinite(time) THEN "saved" ELSE "unread"]
    /\ UNCHANGED <<syncInterval, timers, timeouts, nextTimerId, doc>>

RestoreClears_Skipped(ts, handle) == ts

\* restore's "clear any existing sync interval"
RestoreClears(ts, handle) == IF handle # Null THEN ClearTimer(ts, handle) ELSE ts

HasTarget_Always(pending) == TRUE

HasTarget_NotNaN(pending) == pending # NaN

\* restore's test that a target is pending
HasTarget(pending) == IsFinite(pending)

restorePlaybackTime ==
    IF ~HasTarget(pendingPlaybackTime)
    THEN /\ last' = [Did("restore") EXCEPT !.outcome = "noop"]
         /\ UNCHANGED <<pendingPlaybackTime, syncInterval, timers, timeouts,
                        nextTimerId, doc>>
    ELSE /\ nextTimerId + 1 <= MaxTimerId
         /\ LET targetTime == pendingPlaybackTime IN
            /\ timers' = SetInterval(RestoreClears(timers, syncInterval),
                                     nextTimerId, targetTime)
            /\ syncInterval' = nextTimerId
            /\ nextTimerId' = nextTimerId + 1
            /\ last' = [Did("restore") EXCEPT !.id = nextTimerId, !.target = targetTime,
                                     !.outcome = "started"]
         /\ UNCHANGED <<pendingPlaybackTime, timeouts, doc>>

Converged_Exact(currentTime, targetTime) == currentTime = targetTime

Converged_Inclusive(currentTime, targetTime) ==
    currentTime # Null /\ Abs(currentTime - targetTime) <= TOLERANCE

\* the read-back is within tolerance of the target
Converged(currentTime, targetTime) ==
    currentTime # Null /\ Abs(currentTime - targetTime) < TOLERANCE

Exhausted_OneLate(attempts) == attempts > MAX_SYNC_ATTEMPTS

\* the attempt ceiling is reached
Exhausted(attempts) == attempts >= MAX_SYNC_ATTEMPTS

StopsLoop_OnlyExhausted(converged, exhausted) == exhausted

StopsLoop_OnlyConverged(converged, exhausted) == converged

\* the tick ends the loop: it clears the pending target and the interval
StopsLoop(converged, exhausted) == converged \/ exhausted

SchedulesResume_Always(converged, exhausted) == converged \/ exhausted

\* the tick schedules ensurePlaying
SchedulesResume(converged, exhausted) == converged

\* the verification read of a tick: made only after an applied write
ReadBack(w) == IF ~w.threw /\ w.ret THEN readPlaybackTime(w.doc) ELSE Null

\* how a tick ends, given its write, its read-back and its attempt number
TickOutcome(w, currentTime, attempts, targetTime) ==
    IF w.threw \/ currentTime = Throw THEN "threw"
    ELSE IF w.ret /\ Converged(currentTime, targetTime) THEN "converged"
    ELSE IF Exhausted(attempts) THEN "exhausted"
    ELSE "retry"

\* the state a tick of loop id leaves behind
TickEffect(id, w, currentTime, outcome, stop, resume) ==
    /\ doc' = w.doc
    /\ pendingPlaybackTime' = IF stop THEN Null ELSE pendingPlaybackTime
    /\ timers' =
          IF stop
          THEN ClearTimer([timers EXCEPT ![id].attempts = @ + 1,
                                         ![id].due = SYNC_INTERVAL_MS], syncInterval)
          ELSE [timers EXCEPT ![id].attempts = @ + 1, ![id].due = SYNC_INTERVAL_MS]
    /\ syncInterval' = IF stop THEN Null ELSE syncInterval
    /\ timeouts' = IF resume THEN SetTimeout(timeouts, nextTimerId, id) ELSE timeouts
    /\ nextTimerId' = IF resume THEN nextTimerId + 1 ELSE nextTimerId
    /\ last' = [Did("tick") EXCEPT !.id = id, !.target = timers[id].target,
                             !.attempt = timers[id].attempts + 1,
                             !.applied = ~w.threw /\ w.ret,
                             !.read = IF currentTime = Throw THEN Null ELSE currentTime,
                             !.events = w.events,
                             !.threw = (outcome = "threw"),
                             !.outcome = outcome]

\* one run of the interval callback of the loop with timer id
SyncTick(id) ==
    /\ id \in DOMAIN timers
    /\ timers[id].due = 0
    /\ LET w == setPlaybackTime(doc, timers[id].target)
           currentTime == ReadBack(w)
           outcome == TickOutcome(w, currentTime, timers[id].attempts + 1,
                                  timers[id].target)
       IN  TickEffect(id, w, currentTime, outcome,
                      StopsLoop(outcome = "converged", outcome = "exhausted"),
                      SchedulesResume(outcome = "converged", outcome = "exhausted"))

\* the settle timeout with timer id fires: ensurePlaying runs
ResumeFires(id) ==
    /\ id \in DOMAIN timeouts
    /\ timeouts[id].due = 0
    /\ LET r == ensurePlaying(doc) IN
       /\ timeouts' = ClearTimer(timeouts, id)
       /\ last' = [Did("resume") EXCEPT !.id = timeouts[id].loop,
                                !.events = r.events, !.threw = r.threw]
    /\ UNCHANGED <<pendingPlaybackTime, syncInterval, timers, nextTimerId, doc>>

CancelClears_Forgotten(ts, handle) == ts

\* cancel's "clear the interval if there is one"
CancelClears(ts, handle) == IF handle # Null THEN ClearTimer(ts, handle) ELSE ts

cancelSync ==
    /\ timers' = CancelClears(timers, syncInterval)
    /\ syncInterval' = Null
    /\ pendingPlaybackTime' = Null
    /\ last' = Did("cancel")
    /\ UNCHANGED <<timeouts, nextTimerId, doc>>

getPendingTime_Consuming ==
    /\ last' = [Did("peek") EXCEPT !.read = pendingPlaybackTime]
    /\ pendingPlaybackTime' = Null
    /\ UNCHANGED <<syncInterval, timers, timeouts, nextTimerId, doc>>

getPendingTime ==
    /\ last' = [Did("peek") EXCEPT !.read = pendingPlaybackTime]
    /\ UNCHANGED <<pendingPlaybackTime, syncInterval, timers, timeouts,
                   nextTimerId, doc>>

-----------------------------------------------------------------------------
(* The environment: the clock, and the host replacing the surface.         *)

\* The clock advances by one quantum.  Timer tasks run in the order in which
\* they fall due, so the clock does not pass a timer that is due; calls of the
\* host may still run before a due timer does.
Advance ==
    /\ DOMAIN timers \cup DOMAIN timeouts # {}
    /\ \A i \in DOMAIN timers : timers[i].due > 0
    /\ \A i \in DOMAIN timeouts : timeouts[i].due > 0
    /\ timers' = Elapse(timers, Quantum)
    /\ timeouts' = Elapse(timeouts, Quantum)
    /\ last' = Did("advance")
    /\ UNCHANGED <<pendingPlaybackTime, syncInterval, nextTimerId, doc>>

LoadSurface(d) ==
    /\ doc' = d
    /\ last' = Did("load")
    /\ UNCHANGED <<pendingPlaybackTime, syncInterval, timers, timeouts, nextTimerId>>

Next ==
    \/ savePlaybackTime
    \/ restorePlaybackTime
    \/ cancelSync
    \/ getPendingTime
    \/ \E id \in DOMAIN timers : SyncTick(id)
    \/ \E id \in DOMAIN timeouts : ResumeFires(id)
    \/ Advance
    \/ \E d \in Surfaces : LoadSurface(d)

Spec == Init /\ [][Next]_vars

(* Runs in which every surface holds a widget that accepts writes: every   *)
(* write is applied and the widget keeps the value the write produces.     *)

SteadySurfaces ==
    { RangeDoc(0, 26700, 26700, <<PlayButton>>),  \* a clip of 2.67 s at its end
      MantineDoc(14200, Null, TRUE),              \* a structured slider
      RangeDoc(0, 50000, 27200, <<>>),            \* a longer clip, 0.05 further
      RangeDoc(Null, 50000, 27700, <<>>) }        \* a longer clip, 0.1 further

InitSteady ==
    /\ pendingPlaybackTime = Null
    /\ syncInterval = Null
    /\ timers = <<>>
    /\ timeouts = <<>>
    /\ nextTimerId = 1
    /\ doc \in SteadySurfaces
    /\ last = Quiet

NextSteady ==
    \/ savePlaybackTime
    \/ restorePlaybackTime
    \/ cancelSync
    \/ getPendingTime
    \/ \E id \in DOMAIN timers : SyncTick(id)
    \/ \E id \in DOMAIN timeouts : ResumeFires(id)
    \/ Advance
    \/ \E d \in SteadySurfaces : LoadSurface(d)

SpecSteady == InitSteady /\ [][NextSteady]_vars

(* The locator, the two accessors and the resume trigger called on their   *)
(* own, on every document of a bounded family.                             *)

MaxRanges == 2               \* range inputs in a document
MaxIcons == 2                \* elements of class player-play in a document

\* the sequences over S of length at most n
SeqsUpTo(S, n) == UNION {[1..k -> S] : k \in 0..n}

\* input[type=range] elements: min undeclared or declared, max undeclared,
\* unparseable, zero or positive
RangeInputs ==
    [min : {Null, 0, 10000}, max : {Null, NaN, 0, 20000}, value : {5000}]

\* where the first thumb lies, and what slider root there is
Structures ==
    { [thumb |-> "none", root |-> FALSE, track |-> FALSE],
      [thumb |-> "none", root |-> TRUE, track |-> TRUE],
      [thumb |-> "loose", root |-> FALSE, track |-> FALSE],
      [thumb |-> "loose", root |-> TRUE, track |-> TRUE],
      [thumb |-> "inRoot", root |-> TRUE, track |-> FALSE],
      [thumb |-> "inRoot", root |-> TRUE, track |-> TRUE] }

LocatorDocs ==
    { [EmptyDoc EXCEPT !.thumb = s.thumb, !.root = s.root, !.track = s.track,
                       !.ariaValue = IF s.thumb = "none" THEN Null ELSE 14200,
                       !.accepts = TRUE, !.ranges = r] :
        s \in Structures, r \in SeqsUpTo(RangeInputs, MaxRanges) }

ReadDocs ==
    { MantineDoc(a, b, acc) :
        a \in {Null, NaN, 14200}, b \in {Null, NaN, 50, 100}, acc \in BOOLEAN }

PlayDocs ==
    { [EmptyDoc EXCEPT !.icons = i, !.root = n.root, !.nearButton = n.near,
                       !.body = b] :
        i \in SeqsUpTo([svg : BOOLEAN, button : BOOLEAN], MaxIcons),
        n \in { [root |-> FALSE, near |-> FALSE], [root |-> TRUE, near |-> FALSE],
                [root |-> TRUE, near |-> TRUE] },
        b \in BOOLEAN }

AccessDocs ==
    LocatorDocs \cup ReadDocs \cup PlayDocs
        \cup { [EmptyDoc EXCEPT !.access = "unloaded"],
               [EmptyDoc EXCEPT !.access = "denied"] }

\* the targets written: the ends of [0, ASSUMED_MAX_TIME], one inside, one beyond
Targets == {0, 14200, ASSUMED_MAX_TIME, 40000}

\* what a call did: the document it found, and what it returned and sent
Called(op) ==
    [op |-> op, before |-> doc, slider |-> NoSlider, target |-> Null,
     applied |-> FALSE, read |-> Null, events |-> <<>>, threw |-> FALSE]

InitAccess ==
    /\ pendingPlaybackTime = Null
    /\ syncInterval = Null
    /\ timers = <<>>
    /\ timeouts = <<>>
    /\ nextTimerId = 1
    /\ doc \in AccessDocs
    /\ last = Called("init")

\* findPlaybackSlider(iframeDoc) on a document that can be obtained
CallFind ==
    /\ doc.access # "denied"
    /\ last' = [Called("find") EXCEPT !.slider = findPlaybackSlider(doc)]
    /\ UNCHANGED <<pendingPlaybackTime, syncInterval, timers, timeouts,
                   nextTimerId, doc>>

\* readPlaybackTime(iframe)
CallRead ==
    /\ last' = [Called("read") EXCEPT !.read = readPlaybackTime(doc)]
    /\ UNCHANGED <<pendingPlaybackTime, syncInterval, timers, timeouts,
                   nextTimerId, doc>>

\* setPlaybackTime(iframe, targetTime), then readPlaybackTime(iframe)
CallWrite(targetTime) ==
    LET w == setPlaybackTime(doc, targetTime) IN
    /\ doc' = w.doc
    /\ last' = [Called("write") EXCEPT !.target = targetTime, !.applied = w.ret,
                                 !.events = w.events, !.threw = w.threw,
                                 !.read = readPlaybackTime(w.doc)]
    /\ UNCHANGED <<pendingPlaybackTime, syncInterval, timers, timeouts, nextTimerId>>

\* ensurePlaying(iframe)
CallPlay ==
    LET r == ensurePlaying(doc) IN
    /\ last' = [Called("play") EXCEPT !.events = r.events, !.threw = r.threw]
    /\ UNCHANGED <<pendingPlaybackTime, syncInterval, timers, timeouts,
                   nextTimerId, doc>>

NextAccess ==
    \/ CallFind
    \/ CallRead
    \/ \E targetTime \in Targets : CallWrite(targetTime)
    \/ CallPlay

SpecAccess == InitAccess /\ [][NextAccess]_vars

(* Runs in which the host saves and restores and never cancels, on surfaces *)
(* that make a tick end in each of its ways.                                *)

LoopSurfaces ==
    { RangeDoc(0, 26700, 26700, <<PlayButton>>),  \* a clip of 2.67 s at its end
      RangeDoc(0, 50000, 27700, <<>>),            \* a longer clip, 0.1 further
      EmptyDoc,                                   \* a document without a slider
      MantineDoc(Null, Null, TRUE),               \* a slider that shows no value
      [EmptyDoc EXCEPT !.access = "denied"] }     \* a cross-origin frame

InitLoop ==
    /\ pendingPlaybackTime = Null
    /\ syncInterval = Null
    /\ timers = <<>>
    /\ timeouts = <<>>
    /\ nextTimerId = 1
    /\ doc \in LoopSurfaces
    /\ last = Quiet

\* the interval timer fires
TimerFires == \E id \in DOMAIN timers : SyncTick(id)

\* a settle timeout fires
TimeoutFires == \E id \in DOMAIN timeouts : ResumeFires(id)

NextLoop ==
    \/ savePlaybackTime
    \/ restorePlaybackTime
    \/ TimerFires
    \/ TimeoutFires
    \/ Advance
    \/ \E d \in LoopSurfaces : LoadSurface(d)

SpecLoop == InitLoop /\ [][NextLoop]_vars

\* an interval timer is due: TimerFires is enabled
TimerDue == \E id \in DOMAIN timers : timers[id].due = 0

\* weak fairness of TimerFires, with its enabling condition written out: an
\* interval timer that stays due fires
TimerFairness == ([]<>(~TimerDue)) \/ ([]<><<last'.op = "tick">>_vars)

\* the platform runs the timer tasks that are due, and time passes
FairSpecLoop ==
    SpecLoop /\ TimerFairness /\ WF_vars(TimeoutFires) /\ WF_vars(Advance)

-----------------------------------------------------------------------------
(* Claims.                                                                 *)

\* the loops that are active: the interval timers the platform still runs
Loops == DOMAIN timers

\* C1: at most one convergence loop is active at a time.  The only active
\* loop is the one the module's handle names; a restore that starts a loop
\* leaves its own loop as the only one, whether or not a loop was in flight;
\* and a tick is never the tick of a loop older than an active one, so a
\* superseded loop ticks (and writes) no more.
C1_AtMostOneLoop ==
    /\ Cardinality(Loops) <= 1
    /\ Loops \subseteq {syncInterval}
    /\ (last.op = "restore" /\ last.outcome = "started") => Loops = {last.id}
    /\ last.op = "tick" => \A i \in Loops : i <= last.id

\* a restore has superseded a loop that was in flight
C1_Witness ==
    /\ last.op = "restore" /\ last.outcome = "started"
    /\ last.handle # Null /\ last.handle # last.id
    /\ Loops = {last.id}

\* C2: a save that captures a new value while a loop is in flight cancels
\* that loop (no active loop keeps a target other than the saved one), and
\* the end of a loop does not clear a pending target other than its own.
C2_SaveSupersedesLoop ==
    /\ (last.op = "save" /\ last.outcome = "saved" /\ last.read # last.prev)
          => \A i \in Loops : timers[i].target = pendingPlaybackTime
    /\ (last.op = "tick" /\ last.outcome \in {"converged", "exhausted"}
          /\ last.prev # last.target) => pendingPlaybackTime = last.prev

\* C3: restore with no pending target changes nothing: no loop is scheduled,
\* no event reaches the document, and the pending target stays empty.
C3_RestoreWithoutTargetIsNoOp ==
    [][(last'.op = "restore" /\ pendingPlaybackTime = Null)
         => /\ last'.outcome = "noop"
            /\ last'.events = <<>>
            /\ UNCHANGED <<pendingPlaybackTime, syncInterval, timers, timeouts,
                           nextTimerId, doc>>]_vars

\* restore ran with nothing pending, after a loop had ended
C3_Witness ==
    /\ last.op = "restore" /\ last.outcome = "noop"
    /\ pendingPlaybackTime = Null /\ Loops = {} /\ nextTimerId > 1

\* C4: a successful save overwrites the pending target with the value it
\* read, whatever was pending; the loop a restore starts captures the target
\* pending at that time, and a loop's target never changes, so every tick
\* writes the value saved last.
C4_LastSaveWins ==
    [][/\ (last'.op = "save" /\ IsFinite(readPlaybackTime(doc)))
            => pendingPlaybackTime' = readPlaybackTime(doc)
       /\ (last'.op = "restore" /\ last'.outcome = "started")
            => timers'[last'.id].target = pendingPlaybackTime
       /\ last'.op = "tick" => last'.target = timers[last'.id].target
       /\ \A i \in Loops : i \in DOMAIN timers'
            => timers'[i].target = timers[i].target]_vars

\* the second of two saves before a restore replaced the first one's value
C4_Witness ==
    /\ last.op = "save" /\ last.outcome = "saved"
    /\ last.prev # Null /\ last.prev # last.read
    /\ Loops = {} /\ pendingPlaybackTime = last.read

\* the value an accepted write of target t leaves in the located control:
\* t clamped into the control's range
Reach(d, t) ==
    LET slider == findPlaybackSlider(d) IN
    IF slider.type = "range"
    THEN LET min == OrDefault(d.ranges[slider.index].min, 0)
             max == d.ranges[slider.index].max
         IN  IF t < min THEN min ELSE IF t > max THEN max ELSE t
    ELSE IF t > ASSUMED_MAX_TIME THEN ASSUMED_MAX_TIME ELSE t

\* C5 as stated: when every surface holds a widget that accepts writes, every
\* loop converges within the attempt ceiling, so none ends exhausted.
C5_AcceptingWidgetConverges == last.outcome # "exhausted"

\* C5 amended: on a widget that accepts writes every tick's write is applied,
\* and the tick converges exactly when the target is within tolerance of the
\* control's range; such a loop converges on that tick, within the ceiling.
C5_ConvergesWithinReach ==
    last.op = "tick" =>
        /\ last.applied
        /\ last.attempt <= MAX_SYNC_ATTEMPTS
        /\ last.outcome = "converged"
              <=> Abs(Reach(doc, last.target) - last.target) < TOLERANCE
        /\ last.outcome = "exhausted"
              <=> /\ Abs(Reach(doc, last.target) - last.target) >= TOLERANCE
                  /\ last.attempt = MAX_SYNC_ATTEMPTS

\* a loop converged on a clamped value that differs from its target
C5_Witness ==
    /\ last.op = "tick" /\ last.outcome = "converged"
    /\ last.read # last.target /\ last.attempt = 1

\* C6: a loop that does not converge runs exactly MAX_SYNC_ATTEMPTS ticks: a
\* tick that neither converges nor is the last one leaves the loop active
\* with its counter raised by one; the tick that exhausts is attempt number
\* MAX_SYNC_ATTEMPTS, and it stops the timer and clears the pending target;
\* no active loop has a counter at or beyond the ceiling.
C6_ExhaustsAtCeiling ==
    /\ \A i \in Loops : timers[i].attempts < MAX_SYNC_ATTEMPTS
    /\ last.op = "tick" =>
          /\ last.attempt <= MAX_SYNC_ATTEMPTS
          /\ last.outcome \in {"converged", "exhausted", "retry"}
          /\ last.outcome = "retry" =>
                /\ last.attempt < MAX_SYNC_ATTEMPTS
                /\ last.id \in Loops
                /\ timers[last.id].attempts = last.attempt
          /\ last.outcome = "exhausted" =>
                /\ last.attempt = MAX_SYNC_ATTEMPTS
                /\ Loops = {}
                /\ syncInterval = Null
                /\ pendingPlaybackTime = Null

\* a loop whose last write was rejected gave up
C6_Witness ==
    /\ last.op = "tick" /\ last.outcome = "exhausted" /\ ~last.applied
    /\ last.attempt = MAX_SYNC_ATTEMPTS /\ Loops = {}

\* C7: no exception leaves a handler; on a document that throws on access a
\* save reads null and leaves the pending target alone, a tick's write is
\* rejected and nothing is read back, the tick never converges, and the
\* loop is exhausted exactly at attempt MAX_SYNC_ATTEMPTS, which clears the
\* pending target.
C7_ThrowingDocumentDegrades ==
    /\ ~last.threw
    /\ last.outcome # "threw"
    /\ (doc.access = "denied" /\ last.op = "save")
          => last.read = Null /\ pendingPlaybackTime = last.prev
    /\ (doc.access = "denied" /\ last.op = "tick")
          => /\ ~last.applied /\ last.read = Null /\ last.events = <<>>
             /\ last.outcome = IF last.attempt = MAX_SYNC_ATTEMPTS
                                THEN "exhausted" ELSE "retry"
             /\ last.outcome = "exhausted"
                   => pendingPlaybackTime = Null /\ Loops = {}
    /\ (doc.access = "denied" /\ last.op = "resume") => last.events = <<>>

\* a loop gave up on a document that throws
C7_Witness ==
    /\ doc.access = "denied" /\ last.op = "tick" /\ last.outcome = "exhausted"
    /\ last.attempt = MAX_SYNC_ATTEMPTS /\ pendingPlaybackTime = Null

\* the settle timeouts that loop id has scheduled and that have not fired
ResumesOf(ts, id) == {t \in DOMAIN ts : ts[t].loop = id}

\* C8: the tick that declares convergence clears the pending target, stops
\* its loop and schedules one settle timeout of SETTLE_DELAY_MS for it.  A
\* timeout comes into being in no other way, counts down only as the clock
\* advances, fires only once it is due, is dropped only by firing, and no
\* loop ever has two; when it fires on a document whose first play icon
\* lies in a button, that button is clicked once and nothing else is sent.
C8_ConvergenceSchedulesOneResume ==
    [][/\ (last'.op = "tick" /\ last'.outcome = "converged")
            => /\ pendingPlaybackTime' = Null
               /\ syncInterval' = Null
               /\ last'.id \notin DOMAIN timers'
               /\ ResumesOf(timeouts, last'.id) = {}
               /\ \E t \in DOMAIN timeouts' \ DOMAIN timeouts :
                     /\ DOMAIN timeouts' = DOMAIN timeouts \cup {t}
                     /\ timeouts'[t] = [loop |-> last'.id, due |-> SETTLE_DELAY_MS]
       /\ ~(last'.op = "tick" /\ last'.outcome = "converged")
            => DOMAIN timeouts' \subseteq DOMAIN timeouts
       /\ \A t \in DOMAIN timeouts :
            /\ t \notin DOMAIN timeouts'
                 => /\ last'.op = "resume" /\ last'.id = timeouts[t].loop
                    /\ timeouts[t].due = 0
                    /\ DOMAIN timeouts' = DOMAIN timeouts \ {t}
                    /\ (FirstPlayIcon(doc.icons) > 0
                          /\ doc.icons[FirstPlayIcon(doc.icons)].button
                          /\ doc.access = "ok") => last'.events = <<"click1">>
            /\ t \in DOMAIN timeouts'
                 => /\ timeouts'[t].loop = timeouts[t].loop
                    /\ timeouts'[t].due <= timeouts[t].due
                    /\ timeouts'[t].due < timeouts[t].due
                          => /\ last'.op = "advance"
                             /\ timeouts[t].due - timeouts'[t].due <= Quantum
       /\ last'.op = "resume" => DOMAIN timeouts' # DOMAIN timeouts
       /\ \A t \in DOMAIN timeouts' :
            ResumesOf(timeouts', timeouts'[t].loop) = {t}]_vars

\* the resume of a converged loop clicked the play button found by strategy 1
C8_Witness ==
    /\ last.op = "resume" /\ last.events = <<"click1">>
    /\ ResumesOf(timeouts, last.id) = {} /\ last.id \notin Loops

\* C9 as stated: the end of a loop, by convergence or by exhaustion, leaves
\* a Resume Trigger scheduled for it.
C9_ResumeAfterEitherEnd ==
    (last.op = "tick" /\ last.outcome \in {"converged", "exhausted"})
        => ResumesOf(timeouts, last.id) # {}

\* C9 amended: a tick leaves a Resume Trigger scheduled for its loop exactly
\* when it declared convergence; a loop that ends exhausted schedules none,
\* and no loop that is still active has one.
C9_ResumeOnlyAfterConvergence ==
    /\ last.op = "tick"
          => (ResumesOf(timeouts, last.id) # {} <=> last.outcome = "converged")
    /\ \A i \in Loops : ResumesOf(timeouts, i) = {}

\* a loop ended exhausted and nothing is scheduled
C9_Witness ==
    /\ last.op = "tick" /\ last.outcome = "exhausted"
    /\ DOMAIN timeouts = {} /\ Loops = {}

\* C10: cancel leaves the pending target empty, the handle empty and no loop
\* active, whatever the state before it; only an active loop ever ticks and
\* a loop becomes active only by a restore that starts it under a fresh id,
\* so no loop started before the cancel ticks after it; and a restore that
\* follows a cancel directly changes nothing.
C10_CancelStopsEverything ==
    [][/\ last'.op = "cancel"
            => /\ pendingPlaybackTime' = Null
               /\ syncInterval' = Null
               /\ DOMAIN timers' = {}
       /\ last'.op = "tick" => last'.id \in Loops
       /\ (last.op = "cancel" /\ last'.op = "tick") => FALSE
       /\ \A i \in DOMAIN timers' \ Loops :
            i = nextTimerId /\ nextTimerId' > i /\ last'.op = "restore"
       /\ (last.op = "cancel" /\ last'.op = "restore")
            => /\ last'.outcome = "noop"
               /\ UNCHANGED <<pendingPlaybackTime, syncInterval, timers, timeouts,
                              nextTimerId, doc>>]_vars

\* cancel stopped a loop in flight and dropped the pending target
C10_Witness ==
    /\ last.op = "cancel" /\ last.handle # Null /\ last.prev # Null
    /\ pendingPlaybackTime = Null /\ Loops = {} /\ syncInterval = Null

\* C11: cancellation is total.  A cancel leaves no work of an earlier restore
\* scheduled, neither an interval nor a settle timeout; and the handler that
\* runs right after a cancel is not a resume that delivers a click or a key
\* press to the document.
C11_CancelIsTotal ==
    [][/\ last'.op = "cancel" => DOMAIN timers' = {} /\ DOMAIN timeouts' = {}
       /\ (last.op = "cancel" /\ last'.op = "resume") => last'.events = <<>>]_vars

\* C12: for every target in [0, ASSUMED_MAX_TIME] and every document whose
\* located control is a range input (min defaulting to 0 when undeclared), a
\* write reports success, sends "input" and then "change" and nothing else,
\* and the read that follows it yields a finite value within TOLERANCE of the
\* target clamped into [min, max].
C12_RangeWriteThenRead ==
    (/\ last.op = "write"
     /\ findPlaybackSlider(last.before).type = "range"
     /\ last.target \in 0..ASSUMED_MAX_TIME)
        => /\ last.applied /\ ~last.threw
           /\ last.events = <<"input", "change">>
           /\ IsFinite(last.read)
           /\ Abs(last.read - Reach(last.before, last.target)) < TOLERANCE

\* a write below the declared min of the second range input, the first one
\* being no scrubber, was clamped up to that min and read back
C12_Witness ==
    /\ last.op = "write" /\ last.target = 0 /\ last.applied
    /\ findPlaybackSlider(last.before) = [type |-> "range", index |-> 2]
    /\ last.before.ranges[2].min = 10000 /\ last.before.ranges[2].value = 5000
    /\ last.read = 10000 /\ doc.ranges[2].value = 10000

\* a range input that counts as a scrubber: its declared max is a positive number
Qualifies(input) == input.max \in Nat /\ input.max > 0

\* the document's first thumb lies in a slider root that holds a track
Structured(d) == d.thumb = "inRoot" /\ d.root /\ d.track

C14_StructuredRead ==
    (/\ last.op = "read"
     /\ last.before.access = "ok"
     /\ findPlaybackSlider(last.before).type = "mantine")
        => LET d == last.before IN
           /\ d.ariaValue \in Nat => last.read = d.ariaValue
           /\ (d.ariaValue \notin Nat /\ d.bar \in Nat)
                 => last.read = (d.bar * ASSUMED_MAX_TIME) \div 100
           /\ last.read = Null => (d.ariaValue \notin Nat /\ d.bar \notin Nat)

\* C15: getPendingTime returns the pending target, or null when none is
\* pending, and changes nothing: the pending target, the interval handle,
\* the active loop with its attempt counter and target, the settle timeouts
\* and the document are after it what they were before.
C15_PeekConsumesNothing ==
    [][last'.op = "peek"
         => /\ last'.read = pendingPlaybackTime
            /\ last'.events = <<>>
            /\ UNCHANGED <<pendingPlaybackTime, syncInterval, timers, timeouts,
                           nextTimerId, doc>>]_vars

\* a peek during a loop that has used some of its attempts returned the target
C15_Witness ==
    /\ last.op = "peek" /\ IsFinite(last.read) /\ last.read = pendingPlaybackTime
    /\ syncInterval \in Loops /\ timers[syncInterval].attempts > 1

\* C16: a call of ensurePlaying throws nothing, delivers at most one
\* interaction and changes nothing else.  On a document that can be read,
\* strategy 1 clicks when the first play icon lies in a button; failing that,
\* strategy 2 clicks when some svg play icon lies in a button; failing that,
\* strategy 3 clicks when the slider root has a button with an svg beside
\* it; the space key is pressed on the body only when all three found
\* nothing, and then once; a document that cannot be read receives nothing.
C16_ResumeStrategies ==
    last.op = "play" =>
        LET d == last.before
            one == Len(d.icons) > 0 /\ d.icons[1].button
            two == \E i \in 1..Len(d.icons) : d.icons[i].svg /\ d.icons[i].button
            three == d.root /\ d.nearButton
        IN  /\ ~last.threw
            /\ Len(last.events) <= 1
            /\ doc = d
            /\ d.access # "ok" => last.events = <<>>
            /\ d.access = "ok" =>
                  /\ one => last.events = <<"click1">>
                  /\ (~one /\ two) => last.events = <<"click2">>
                  /\ (~one /\ ~two /\ three) => last.events = <<"click3">>
                  /\ (~one /\ ~two /\ ~three /\ d.body) => last.events = <<"keydown">>
                  /\ last.events = <<"keydown">> => (~one /\ ~two /\ ~three)

\* the first play icon lay outside any button, and strategy 2 clicked the
\* button around the second one
C16_Witness ==
    /\ last.op = "play" /\ last.events = <<"click2">>
    /\ Len(last.before.icons) = 2 /\ ~last.before.icons[1].button
    /\ last.before.icons[2] = [svg |-> TRUE, button |-> TRUE]

\* C17: every tick counts as one attempt and locates the slider anew in the
\* document as it then is: its write is applied exactly when that document
\* holds a slider, and nothing is read back after a write that was not
\* applied.  The tick declares convergence exactly when its write was applied
\* and its read-back is a number strictly within TOLERANCE of the target.  A
\* tick that does not converge and is not the last attempt, whether the
\* slider was not found, the write rejected or the read-back unknown, leaves
\* its loop active with the same target for the next tick.
C17_TickWritesThenReads ==
    [][last'.op = "tick" =>
         LET found == doc.access = "ok" /\ findPlaybackSlider(doc).type # "none" IN
         /\ last'.id \in Loops
         /\ last'.attempt = timers[last'.id].attempts + 1
         /\ last'.applied <=> found
         /\ last'.events # <<>> <=> found
         /\ ~last'.applied => last'.read = Null
         /\ last'.applied => last'.read = readPlaybackTime(doc')
         /\ last'.outcome = "converged"
               <=> /\ last'.applied
                   /\ IsFinite(last'.read)
                   /\ Abs(last'.read - last'.target) < TOLERANCE
         /\ (last'.outcome # "converged" /\ last'.attempt < MAX_SYNC_ATTEMPTS)
               => /\ last'.outcome = "retry"
                  /\ last'.id \in DOMAIN timers'
                  /\ timers'[last'.id].attempts = last'.attempt
                  /\ timers'[last'.id].target = last'.target
                  /\ timers'[last'.id].due = SYNC_INTERVAL_MS
                  /\ UNCHANGED <<pendingPlaybackTime, syncInterval, timeouts>>]_vars

\* a tick whose write was applied read back a value exactly TOLERANCE away
\* from the target, and the loop goes on
C17_Witness ==
    /\ last.op = "tick" /\ last.applied /\ IsFinite(last.read)
    /\ Abs(last.read - last.target) = TOLERANCE
    /\ last.outcome = "retry" /\ last.id \in Loops

\* no target is pending and no loop is active
Idle == pendingPlaybackTime = Null /\ syncInterval = Null /\ Loops = {}

\* C18: the lifecycle.  A loop becomes active only by a restore made while a
\* target is pending, and it is then the only one.  A loop stops being active
\* only because a restore supersedes it or because its own tick ends it, as
\* converged or as exhausted, and the tick that ends it leaves the system
\* idle.  When the platform keeps firing the timers that are due, an active
\* loop leads to a tick that ends a loop, converged or exhausted, and leaves
\* the system idle.
C18_Lifecycle ==
    /\ [][/\ \A i \in Loops' \ Loops :
               /\ last'.op = "restore" /\ last'.id = i
               /\ IsFinite(pendingPlaybackTime)
               /\ Loops' = {i}
          /\ \A i \in Loops \ Loops' :
               \/ last'.op = "restore" /\ last'.outcome = "started"
               \/ /\ last'.op = "tick" /\ last'.id = i
                  /\ last'.outcome \in {"converged", "exhausted"}
          /\ (last'.op = "tick" /\ last'.outcome \in {"converged", "exhausted"})
               => Idle'
          /\ (last'.op = "tick" /\ last'.outcome \notin {"converged", "exhausted"})
               => Loops' = Loops]_vars
    /\ (Loops # {})
          ~> (last.op = "tick" /\ last.outcome \in {"converged", "exhausted"} /\ Idle)

\* a loop that was retried on a surface without a usable slider converged
\* once a usable one was loaded, and the system is idle
C18_Witness ==
    /\ last.op = "tick" /\ last.outcome = "converged" /\ last.attempt > 2
    /\ Idle /\ ResumesOf(timeouts, last.id) # {}

\* C19: a save that reads no value returns null and changes nothing: the
\* pending target, empty or saved before, the interval handle, the timers
\* and the document stay as they were; and a restore that follows such a
\* save made with nothing pending and no loop active starts no loop.
C19_FailedSaveChangesNothing ==
    [][/\ (last'.op = "save" /\ ~IsFinite(readPlaybackTime(doc)))
            => /\ last'.read = Null /\ last'.outcome = "unread"
               /\ UNCHANGED <<pendingPlaybackTime, syncInterval, timers, timeouts,
                              nextTimerId, doc>>
       /\ (last'.op = "save" /\ last'.outcome = "unread")
            => ~IsFinite(readPlaybackTime(doc))
       /\ (/\ last.op = "save" /\ last.outcome = "unread"
           /\ last.prev = Null /\ last.handle = Null
           /\ last'.op = "restore")
            => /\ last'.outcome = "noop"
               /\ Loops' = {}
               /\ UNCHANGED <<pendingPlaybackTime, syncInterval, timers, timeouts,
                              nextTimerId, doc>>]_vars

\* a save on a frame that cannot be read, made while a loop was running,
\* left the saved target and the loop in place
C19_Witness ==
    /\ last.op = "save" /\ last.outcome = "unread" /\ last.read = Null
    /\ IsFinite(last.prev) /\ pendingPlaybackTime = last.prev
    /\ last.handle # Null /\ syncInterval = last.handle /\ syncInterval \in Loops

\* C20: an interval handle, and an active loop, imply a finite pending
\* target; so a restore that returns early because nothing is pending leaves
\* no loop running.
C20_LoopImpliesTarget ==
    /\ syncInterval # Null => IsFinite(pendingPlaybackTime)
    /\ Loops # {} => IsFinite(pendingPlaybackTime)
    /\ (last.op = "restore" /\ last.outcome = "noop")
          => syncInterval = Null /\ Loops = {}

\* a loop on its last attempt but one, its target still pending
C20_Witness ==
    /\ syncInterval \in Loops
    /\ timers[syncInterval].attempts = MAX_SYNC_ATTEMPTS - 1
    /\ pendingPlaybackTime = timers[syncInterval].target

====
